---- MODULE Spec2Model ----
(***************************************************************************)
(* Model of the crash-game scraper and of the dashboard that supervises   *)
(* it.                                                                     *)
(*                                                                         *)
(*   Spec         the dashboard supervisor (frontend.py, app.py): one      *)
(*                Streamlit script run is DrawSidebar followed by          *)
(*                HandleMainArea; the child processes it spawns write      *)
(*                their log files and may exit on their own.               *)
(*   SpecScraper  one scraper process (cls_webscrapper.py): URL discovery, *)
(*                the polling loop of fetch_data, the CSV and log files.   *)
(*   SpecLogs     the dashboard once Start was pressed, reading log files  *)
(*                of up to max_lines + MaxOlder lines.                     *)
(***************************************************************************)
EXTENDS Integers, Sequences, FiniteSets, TLC

VARIABLES
    duration,        \* ScraperUI.duration (app.SCRAP_DURATION), seconds
    session_state,   \* st.session_state: the four keys set by ScraperUI.__init__
    procs,           \* OS state of every child ever spawned, by pid
    logs,            \* logs/*.txt, one file per child, by pid
    recent,          \* pid whose log file has the latest mtime, None if no file
    now,             \* time.time() of the dashboard, seconds
    pc,              \* position of the dashboard in run(): "sidebar" or "main"
    click,           \* the widget event that triggered the current script run
    start_offered,   \* the Start button was rendered by the last HandleMainArea
    tick,            \* what the last HandleMainArea did (observation only)
    stop_obs,        \* what the last press of Stop did (observation only)
    scrap_duration,  \* ImprovedWebScraper.duration (SCRAP_DURATION), seconds
    start_time,      \* ImprovedWebScraper.start_time, tenths of a second
    clock,           \* time.time() of the scraper, tenths of a second
    driver,          \* ImprovedWebScraper.driver: "None" or "open"
    url_crash_plane, \* ImprovedWebScraper.url_crash_plane
    logger,          \* severities of the entries emitted to the scraper's logger
    csv_file,        \* the output CSV file
    spc,             \* position of the scraper process
    search,          \* what search_for_url did (observation only)
    cycle,           \* what the last polling cycle did (observation only)
    fetch            \* what ended fetch_data by a fault (observation only)

scraperVars == <<scrap_duration, start_time, clock, driver, url_crash_plane, logger,
                 csv_file, spc, search, cycle, fetch>>

supervisorVars == <<duration, session_state, procs, logs, recent, now, pc, click,
                    start_offered, tick, stop_obs>>

(***************************************************************************)
(* Bounds of the model.                                                    *)
(***************************************************************************)
MaxDuration == 1
MaxTime == 2
MaxSpawns == 2
MaxLogLines == 2
MaxScrapDuration == 9
MaxStartClock == 1
MaxOlder == 2

\* Python's None, for a pid and for a time: neither a pid nor a time.
None == -1
Pids == 1..MaxSpawns
Severities == {"INFO", "WARNING", "ERROR"}

\* max(a, b)
Max(a, b) == IF a >= b THEN a ELSE b

\* min(a, b)
Min(a, b) == IF a <= b THEN a ELSE b

(***************************************************************************)
(* frontend.py                                                             *)
(***************************************************************************)

\* The three reasons passed to _stop_scraping, word by word.
ReasonManual == <<"Stopped", "manually", "by", "user.">>
ReasonCompleted == <<"Duration", "reached,", "scraping", "completed.">>
ReasonError == <<"Scraping", "stopped", "due", "to", "an", "ERROR", "in", "logs.">>

\* str.lower() on the words the reasons are made of.
Lower(w) ==
    CASE w = "Stopped" -> "stopped"
      [] w = "Duration" -> "duration"
      [] w = "Scraping" -> "scraping"
      [] w = "ERROR" -> "error"
      [] OTHER -> w

\* "error" in reason.lower()
MarksError(reason) == \E i \in 1..Len(reason) : Lower(reason[i]) = "error"

\* Popen.poll() is None
Alive(ps, p) == p # None /\ ps[p] = "alive"

\* ScraperUI.__init__: the session state of a new browser session.
InitialSessionState ==
    [scraping_started |-> FALSE, scraping_start_time |-> None,
     scraping_process |-> None, scraping_error |-> FALSE]

\* _stop_scraping that resets the flags and leaves the child running.
StopScrapingNoTerminate(ss, ps, reason) ==
    <<[ss EXCEPT !.scraping_started = FALSE, !.scraping_error = MarksError(reason)],
      ps>>

\* _stop_scraping that resets scraping_started on a normal stop only: an
\* error stop leaves the flag as it is.
StopScrapingKeepStarted(ss, ps, reason) ==
    LET p == ss.scraping_process
        ps2 == IF Alive(ps, p) THEN [ps EXCEPT ![p] = "exited"] ELSE ps
        ss2 == IF MarksError(reason)
               THEN [ss EXCEPT !.scraping_error = TRUE]
               ELSE [ss EXCEPT !.scraping_started = FALSE, !.scraping_error = FALSE]
    IN  <<ss2, ps2>>

\* ScraperUI._stop_scraping: the new <<session state, processes>>. terminate()
\* followed by wait() leaves the child exited.
StopScraping(ss, ps, reason) ==
    LET p == ss.scraping_process
        ps2 == IF Alive(ps, p) THEN [ps EXCEPT ![p] = "exited"] ELSE ps
        ss2 == [ss EXCEPT !.scraping_started = FALSE,
                          !.scraping_error = MarksError(reason)]
    IN  <<ss2, ps2>>

\* The supervisor state the dashboard shows: idle, running or error.
Mode(ss) ==
    IF ss.scraping_error THEN "error"
    ELSE IF ss.scraping_started THEN "running" ELSE "idle"

\* Number of children spawned so far.
Spawned == Cardinality({p \in Pids : procs[p] # "unborn"})

\* ScraperUI._start_scraping; spawnOk = FALSE is subprocess.Popen raising.
StartScraping(ss, ps, spawnOk) ==
    LET p == Spawned + 1
        ss1 == [ss EXCEPT !.scraping_started = TRUE, !.scraping_start_time = now]
    IN  IF spawnOk
        THEN <<[ss1 EXCEPT !.scraping_process = p], [ps EXCEPT ![p] = "alive"]>>
        ELSE <<ss1, ps>>

\* ScraperUI._get_most_recent_log_file and _load_logs: the lines of the most
\* recently modified log file, or "none" when there is no log file.
MostRecentLog ==
    IF recent = None THEN [found |-> FALSE, lines |-> <<>>]
    ELSE [found |-> TRUE, lines |-> logs[recent].lines]

\* any(" - ERROR - " in line for line in lines)
ErrorFound(lines) == \E i \in 1..Len(lines) : lines[i] = "ERROR"

\* max_lines of _display_logs (line 198)
max_lines == 500

\* lines[-k:] for k > 0
LastLines(lines, k) ==
    IF Len(lines) > k THEN SubSeq(lines, Len(lines) - k + 1, Len(lines)) ELSE lines

\* ScraperUI._format_log_line: the line in the colour of its level.
FormatLogLine(line) ==
    [color |-> CASE line = "INFO" -> "#0066cc"
                 [] line = "WARNING" -> "#ff9900"
                 [] line = "ERROR" -> "#cc0000"
                 [] OTHER -> "#666",
     text |-> line]

\* [self._format_log_line(line) for line in lines]
FormatLines(lines) == [i \in 1..Len(lines) |-> FormatLogLine(lines[i])]

\* _display_logs with the lines cut to the last max_lines before they are
\* searched for an error.
DisplayLogsTruncateFirst(ss, ps) ==
    LET lines == LastLines(MostRecentLog.lines, max_lines)
    IN  IF ~MostRecentLog.found THEN <<ss, ps, FALSE, <<>>>>
        ELSE IF lines = <<>> THEN <<ss, ps, FALSE, <<>>>>
        ELSE IF ErrorFound(lines)
             THEN LET r == StopScraping(ss, ps, ReasonError)
                  IN  <<r[1], r[2], TRUE, <<>>>>
             ELSE <<ss, ps, FALSE, FormatLines(lines)>>

\* ScraperUI._display_logs: the new <<session state, processes, error_found,
\* formatted lines displayed>>.
DisplayLogs(ss, ps) ==
    LET lines == MostRecentLog.lines
    IN  IF ~MostRecentLog.found THEN <<ss, ps, FALSE, <<>>>>
        ELSE IF lines = <<>> THEN <<ss, ps, FALSE, <<>>>>
        ELSE IF ErrorFound(lines)
             THEN LET r == StopScraping(ss, ps, ReasonError)
                  IN  <<r[1], r[2], TRUE, <<>>>>
             ELSE <<ss, ps, FALSE, FormatLines(LastLines(lines, max_lines))>>

\* The Start button drawn whenever scraping is not started.
ShowStartIgnoringError(ss) == ~ss.scraping_started

\* The Start button drawn whenever no error has occurred, running or not.
ShowStartWhileRunning(ss) == ~ss.scraping_error

\* The condition under which the Start button is drawn (line 71).
ShowStart(ss) == ~ss.scraping_started /\ ~ss.scraping_error

\* The condition under which progress and logs are drawn (line 84).
ShowProgress(ss) == ss.scraping_started /\ ~ss.scraping_error

\* Observation of one HandleMainArea: ran = lines 84-99 were entered,
\* log_error = the most recent log file held an error line at that moment,
\* fault = the script run was ended by an exception, progress = the ratio
\* given to st.progress as <<numerator, denominator>>, logs_read =
\* _display_logs was called, log_pid = the child whose log file it read,
\* displayed = the formatted lines it put on the page.
NoTick == [ran |-> FALSE, elapsed |-> 0, time_left |-> 0, log_error |-> FALSE,
           error_found |-> FALSE, fault |-> FALSE, spawned |-> FALSE,
           completed |-> FALSE, progress |-> <<0, 1>>, logs_read |-> FALSE,
           log_pid |-> None, displayed |-> <<>>]

\* Observation of a press of Stop: the mode it was pressed in, whether the
\* tracked child was alive, whether terminate() was sent.
NoStop == [from |-> "none", was_alive |-> FALSE, terminated |-> FALSE]

\* ScraperUI._draw_sidebar: a script run starts with the event that caused it.
DrawSidebar ==
    /\ pc = "sidebar"
    /\ \E c \in {"none", "refresh", "stop", "start"} :
          /\ c = "start" => (start_offered /\ Spawned < MaxSpawns)
          /\ click' = c
          /\ IF c = "stop"
             THEN LET r == StopScraping(session_state, procs, ReasonManual)
                  IN  /\ session_state' = r[1]
                      /\ procs' = r[2]
                      /\ stop_obs' =
                            [from |-> Mode(session_state),
                             was_alive |-> Alive(procs, session_state.scraping_process),
                             terminated |-> r[2] # procs]
             ELSE /\ UNCHANGED <<session_state, procs>>
                  /\ stop_obs' = NoStop
    /\ pc' = "main"
    /\ UNCHANGED <<duration, logs, recent, now, start_offered, tick>>
    /\ UNCHANGED scraperVars

\* a < b for two ratios with positive denominators
RatLess(a, b) == a[1] * b[2] < b[1] * a[2]

\* Python's min(a, b): b if b < a, else a
RatMin(a, b) == IF RatLess(b, a) THEN b ELSE a

\* ScraperUI._handle_main_area, lines 84-99, entered with ShowProgress true.
Progress(ss, ps) ==
    LET elapsed == now - ss.scraping_start_time
    IN  IF duration = 0
        THEN \* elapsed / self.duration raises ZeroDivisionError
             <<ss, ps, [NoTick EXCEPT !.ran = TRUE, !.elapsed = elapsed,
                                      !.log_error = ErrorFound(MostRecentLog.lines),
                                      !.fault = TRUE]>>
        ELSE LET d == DisplayLogs(ss, ps)
                 t == [NoTick EXCEPT !.ran = TRUE, !.elapsed = elapsed,
                                     !.time_left = Max(0, duration - elapsed),
                                     !.log_error = ErrorFound(MostRecentLog.lines),
                                     !.error_found = d[3],
                                     !.progress = RatMin(<<elapsed, duration>>, <<1, 1>>),
                                     !.logs_read = TRUE,
                                     !.log_pid = recent,
                                     !.displayed = d[4]]
             IN  IF elapsed >= duration
                 THEN LET r == StopScraping(d[1], d[2], ReasonCompleted)
                      IN  <<r[1], r[2], [t EXCEPT !.completed = TRUE]>>
                 ELSE <<d[1], d[2], t>>

\* ScraperUI._handle_main_area.
HandleMainArea ==
    /\ pc = "main"
    /\ \E spawnOk \in BOOLEAN :
          LET offered == ShowStart(session_state)
              pressed == offered /\ click = "start"
              s == IF pressed
                   THEN StartScraping(session_state, procs, spawnOk)
                   ELSE <<session_state, procs>>
              r == IF pressed /\ ~spawnOk
                   THEN \* Popen raised: the script run ends here
                        <<s[1], s[2], [NoTick EXCEPT !.fault = TRUE]>>
                   ELSE IF ShowProgress(s[1])
                        THEN Progress(s[1], s[2])
                        ELSE <<s[1], s[2], NoTick>>
          IN  /\ (~pressed => spawnOk)
              /\ session_state' = r[1]
              /\ procs' = r[2]
              /\ tick' = [r[3] EXCEPT !.spawned = pressed /\ spawnOk]
              /\ start_offered' = offered
    /\ pc' = "sidebar"
    /\ UNCHANGED <<duration, logs, recent, now, click, stop_obs>>
    /\ UNCHANGED scraperVars

\* time.time() advances.
Tock ==
    /\ now < MaxTime
    /\ now' = now + 1
    /\ UNCHANGED <<duration, session_state, procs, logs, recent, pc, click,
                   start_offered, tick, stop_obs>>
    /\ UNCHANGED scraperVars

(***************************************************************************)
(* The spawned scraper, as the dashboard sees it: its log file and its     *)
(* exit.                                                                   *)
(***************************************************************************)

\* ImprovedWebScraper.__init__: setup_logger creates the log file, and the
\* first entry is written.
ChildSetupLogger(p) ==
    /\ procs[p] = "alive"
    /\ ~logs[p].exists
    /\ logs' = [logs EXCEPT ![p] = [exists |-> TRUE, lines |-> <<"INFO">>]]
    /\ recent' = p
    /\ UNCHANGED <<duration, session_state, procs, now, pc, click, start_offered,
                   tick, stop_obs>>
    /\ UNCHANGED scraperVars

\* self.logger.info / warning / error of the running scraper.
ChildLog(p) ==
    /\ procs[p] = "alive"
    /\ logs[p].exists
    /\ Len(logs[p].lines) < MaxLogLines
    /\ \E sev \in Severities :
          logs' = [logs EXCEPT ![p].lines = Append(@, sev)]
    /\ recent' = p
    /\ UNCHANGED <<duration, session_state, procs, now, pc, click, start_offered,
                   tick, stop_obs>>
    /\ UNCHANGED scraperVars

\* The scraper process ends by itself (main returns).
ChildExit(p) ==
    /\ procs[p] = "alive"
    /\ procs' = [procs EXCEPT ![p] = "exited"]
    /\ UNCHANGED <<duration, session_state, logs, recent, now, pc, click,
                   start_offered, tick, stop_obs>>
    /\ UNCHANGED scraperVars

Child == \E p \in Pids : ChildSetupLogger(p) \/ ChildLog(p) \/ ChildExit(p)

(***************************************************************************)
(* Classe_webscrapper/cls_webscrapper.py                                   *)
(*                                                                         *)
(* Times are in tenths of a second. Texts are sequences of characters.     *)
(***************************************************************************)

\* The sleeps and the bounded waits of the scraper, in tenths of a second.
IframeWait == 300
RetryPause == 20
RetrySettle == 50
RetryWait == 100
PageSettle == 50
MarkerWait == 300
SkipSleep == 30
RowSleep == 8

\* Seconds to tenths of a second.
Tenths(seconds) == seconds * 10

\* A WebDriverWait(driver, timeout).until(...): the condition is met at once
\* or just before the timeout, or TimeoutException is raised at the timeout.
WaitOutcomes(timeout) ==
    {[found |-> TRUE, took |-> d] : d \in {0, timeout}}
        \cup {[found |-> FALSE, took |-> timeout]}

RECURSIVE LStrip(_)
LStrip(t) == IF t # <<>> /\ Head(t) = " " THEN LStrip(Tail(t)) ELSE t

RECURSIVE RStrip(_)
RStrip(t) ==
    IF t # <<>> /\ t[Len(t)] = " " THEN RStrip(SubSeq(t, 1, Len(t) - 1)) ELSE t

\* str.strip()
Strip(t) == RStrip(LStrip(t))

\* A replacement of old at the end of the text only.
ReplaceAtEnd(t, old, new) ==
    IF t # <<>> /\ t[Len(t)] = old THEN SubSeq(t, 1, Len(t) - 1) \o new ELSE t

\* str.replace(old, new) for a one-character old.
RECURSIVE Replace(_, _, _)
Replace(t, old, new) ==
    IF t = <<>> THEN <<>>
    ELSE (IF Head(t) = old THEN new ELSE <<Head(t)>>) \o Replace(Tail(t), old, new)

\* The elements dictionary of extract_data, in its iteration order.
KeyOrder == <<"Value X", "Value Bets", "Value Prize", "Value Players">>
Keys == {KeyOrder[i] : i \in 1..Len(KeyOrder)}

NoElement == [present |-> FALSE, text |-> <<>>]
Element(t) == [present |-> TRUE, text |-> t]

\* What the four selectors find in the page on one cycle.
PageOf(x, bets, prize, players) ==
    [k \in Keys |->
        CASE k = "Value X" -> x
          [] k = "Value Bets" -> bets
          [] k = "Value Prize" -> prize
          [] OTHER -> players]

Bets120 == Element(<<"1", "2", "0">>)
Prize400 == Element(<<"4", "0", "0">>)
Players15 == Element(<<"1", "5">>)

\* The multiplier texts tried.
XTexts ==
    { <<"3", ".", "2", "5", "x">>,
      <<"x", "2", ".", "5">>,
      <<" ">> }

X325 == Element(<<"3", ".", "2", "5", "x">>)

Pages ==
    {PageOf(Element(x), Bets120, Prize400, Players15) : x \in XTexts}
        \cup { PageOf(NoElement, Bets120, Prize400, Players15),
               PageOf(X325, NoElement, Prize400, Players15),
               PageOf(Element(<<>>), Bets120, NoElement, Players15),
               PageOf(X325, Element(<<>>), Element(<<" ", "4", "0", "0">>), Players15) }

EmptyDict == [k \in {} |-> <<>>]

\* data[key] = value
Put(data, key, value) ==
    [k \in DOMAIN data \cup {key} |-> IF k = key THEN value ELSE data[k]]

\* data.get(key, default)
Get(data, key, default) == IF key \in DOMAIN data THEN data[key] ELSE default

\* The loop of extract_data from the i-th selector on: find_element raises
\* NoSuchElementException at the first selector that finds nothing, and the
\* handler keeps what was read before it.
RECURSIVE ExtractFrom(_, _, _)
ExtractFrom(i, page, data) ==
    IF i > Len(KeyOrder) THEN [data |-> data, missing |-> FALSE]
    ELSE IF ~page[KeyOrder[i]].present THEN [data |-> data, missing |-> TRUE]
    ELSE ExtractFrom(i + 1, page, Put(data, KeyOrder[i], Strip(page[KeyOrder[i]].text)))

\* ImprovedWebScraper.extract_data: the dictionary returned and the entries
\* logged.
ExtractData(page) ==
    LET r == ExtractFrom(1, page, EmptyDict)
    IN  [data |-> r.data,
         entries |-> <<"DEBUG", IF r.missing THEN "WARNING" ELSE "DEBUG">>]

\* The skip test without the check of Value X.
SkipCycleOnlyIfNoData(data) == data = EmptyDict

\* not data or data.get('Value X', "") == ""
SkipCycle(data) == data = EmptyDict \/ Get(data, "Value X", <<>>) = <<>>

\* ImprovedWebScraper.get_timestamp: the wall clock to the second.
GetTimestamp(t) == t \div 10

\* The f-string of fetch_data; evaluating it raises KeyError when a key is
\* missing.
RaisesKeyError(data) == ~(Keys \subseteq DOMAIN data)

FormatLine(timestamp, data) ==
    [timestamp |-> timestamp,
     rest |-> <<",">> \o Replace(data["Value X"], "x", <<>>)
              \o <<",">> \o data["Value Bets"]
              \o <<",">> \o data["Value Prize"]
              \o <<",">> \o data["Value Players"] \o <<"LF">>]

HeaderLine ==
    [timestamp |-> -1,
     rest |-> <<"Timestamp,Value X,Value Bets,Value Prize,Value Players", "LF">>]

\* The loop test with <= for <.
LoopConditionInclusive(t, start, d) == t - start <= Tenths(d)

\* while time.time() - self.start_time < self.duration
LoopCondition(t, start, d) == t - start < Tenths(d)

NoCycle == [n |-> 0, began |-> -1, kind |-> "none", page |-> <<>>, data |-> <<>>,
            wrote |-> 0, errors |-> 0, stopped |-> FALSE, slept |-> 0, left_at |-> -1]

NoSearch == [loads |-> 0, attempts |-> <<>>, result |-> "pending"]

\* log_at = number of log entries when fetch_data was called, fault = the
\* exception that reached the handler of line 216, rows_at = number of lines
\* of the output file at that moment.
NoFetch == [log_at |-> -1, fault |-> "none", rows_at |-> -1]

\* A handler that logs the exception and raises it again: start_scraping
\* (line 270) then logs it a second time.
HandleFetchFaultAndRaise(entries) == entries \o <<"ERROR", "ERROR">>

\* fetch_data, lines 216-217: the exception is logged and not raised again;
\* entries = what the try block had logged before it.
HandleFetchFault(entries) == Append(entries, "ERROR")

\* One pass through the body of the while loop of fetch_data (lines 192-213),
\* entered when the clock reads t: the marker wait w, then the page as the
\* selectors find it; fault = an exception other than NoSuchElementException
\* is raised while the elements are read. No statement of the body lets
\* NoSuchElementException reach the handler of line 211: the wait raises
\* TimeoutException and extract_data handles its own.
PollOnce(t, w, page, fault) ==
    LET t1 == t + w.took
        e == ExtractData(page)
    IN  IF ~w.found
        THEN [kind |-> "timeout", clock |-> t1, data |-> <<>>,
              entries |-> HandleFetchFault(<<>>),
              lines |-> <<>>, stopped |-> TRUE, slept |-> 0]
        ELSE IF fault
        THEN [kind |-> "fault", clock |-> t1, data |-> <<>>,
              entries |-> HandleFetchFault(<<"DEBUG">>),
              lines |-> <<>>, stopped |-> TRUE, slept |-> 0]
        ELSE IF SkipCycle(e.data)
        THEN [kind |-> "extracted", clock |-> t1 + SkipSleep, data |-> e.data,
              entries |-> e.entries \o <<"DEBUG">>,
              lines |-> <<>>, stopped |-> FALSE, slept |-> SkipSleep]
        ELSE IF RaisesKeyError(e.data)
        THEN [kind |-> "extracted", clock |-> t1, data |-> e.data,
              entries |-> HandleFetchFault(e.entries),
              lines |-> <<>>, stopped |-> TRUE, slept |-> 0]
        ELSE [kind |-> "extracted", clock |-> t1 + RowSleep, data |-> e.data,
              entries |-> e.entries \o <<"INFO">>,
              lines |-> <<FormatLine(GetTimestamp(t1), e.data)>>,
              stopped |-> FALSE, slept |-> RowSleep]

\* ImprovedWebScraper.setup_driver
SetupDriver ==
    /\ spc = "setup_driver"
    /\ \E ok \in BOOLEAN :
          /\ driver' = IF ok THEN "open" ELSE "None"
          /\ logger' = logger \o <<"INFO", IF ok THEN "INFO" ELSE "ERROR">>
          /\ spc' = IF ok THEN "start_scraping" ELSE "crashed"
    /\ UNCHANGED <<scrap_duration, start_time, clock, url_crash_plane, csv_file,
                   search, cycle>>
    /\ UNCHANGED fetch
    /\ UNCHANGED supervisorVars

\* ImprovedWebScraper.start_scraping, up to the call of search_for_url.
BeginScraping ==
    /\ spc = "start_scraping"
    /\ logger' = Append(logger, "INFO")
    /\ spc' = "search_first"
    /\ UNCHANGED <<scrap_duration, start_time, clock, driver, url_crash_plane,
                   csv_file, search, cycle>>
    /\ UNCHANGED fetch
    /\ UNCHANGED supervisorVars

\* What one load of the landing page gives: the page fails to load, the wait
\* for the iframe times out, find_element finds no iframe, or the iframe is
\* found with an empty, an origin-relative or an absolute src.
IframeOutcomes == {"load_failed", "timeout", "absent", "empty_src", "relative", "absolute"}

\* The iframe's src was read and is not empty.
Exposed(outcome) == outcome \in {"relative", "absolute"}

\* final_url of search_for_url
FinalUrl(outcome) ==
    IF outcome = "relative" THEN <<"https://1xbet.com", "/games/crash">>
    ELSE <<"https://cdn.example/crash">>

\* The exception a load raises inside the try block, "none" if it returns.
Raised(outcome) ==
    CASE outcome = "load_failed" -> "WebDriverException"
      [] outcome = "timeout" -> "TimeoutException"
      [] outcome \in {"absent", "empty_src"} -> "NoSuchElementException"
      [] OTHER -> "none"

\* A handler that names NoSuchElementException alone.
HandledNoTimeout(exception) == exception = "NoSuchElementException"

\* except (NoSuchElementException, TimeoutException), lines 114 and 138
Handled(exception) == exception \in {"NoSuchElementException", "TimeoutException"}

\* The wait that goes with an outcome of a load.
WaitFits(outcome, w) ==
    CASE outcome = "load_failed" -> w.found /\ w.took = 0
      [] outcome = "timeout" -> ~w.found
      [] OTHER -> w.found

\* search_for_url, the first attempt (lines 88-116).
SearchFirst ==
    /\ spc = "search_first"
    /\ \E outcome \in IframeOutcomes, w \in WaitOutcomes(IframeWait) :
          /\ WaitFits(outcome, w)
          /\ IF Raised(outcome) = "none"
             THEN /\ url_crash_plane' = FinalUrl(outcome)
                  /\ logger' = logger \o <<"INFO", "INFO">>
                  /\ clock' = clock + w.took
                  /\ search' = [loads |-> search.loads + 1,
                                attempts |-> Append(search.attempts, outcome),
                                result |-> "found"]
                  /\ spc' = "fetch_data"
             ELSE IF Handled(Raised(outcome))
             THEN /\ logger' = logger \o <<"INFO">>
                        \o (IF outcome = "empty_src" THEN <<"ERROR">> ELSE <<>>)
                        \o <<"WARNING">>
                  /\ clock' = clock + w.took + RetryPause
                  /\ search' = [search EXCEPT !.loads = @ + 1,
                                              !.attempts = Append(@, outcome)]
                  /\ spc' = "search_retry"
                  /\ UNCHANGED url_crash_plane
             ELSE /\ logger' = logger \o <<"INFO">>
                        \o (IF outcome = "empty_src" THEN <<"ERROR">> ELSE <<>>)
                  /\ clock' = clock + w.took
                  /\ search' = [loads |-> search.loads + 1,
                                attempts |-> Append(search.attempts, outcome),
                                result |-> Raised(outcome)]
                  /\ spc' = "search_failed"
                  /\ UNCHANGED url_crash_plane
    /\ UNCHANGED <<scrap_duration, start_time, driver, csv_file, cycle>>
    /\ UNCHANGED fetch
    /\ UNCHANGED supervisorVars

\* search_for_url, the retry (lines 117-140). The page is loaded again before
\* the inner try block, so a failing load leaves the function as it is.
SearchRetry ==
    /\ spc = "search_retry"
    /\ \E outcome \in IframeOutcomes, w \in WaitOutcomes(RetryWait) :
          /\ WaitFits(outcome, w)
          /\ IF Raised(outcome) = "none"
             THEN /\ url_crash_plane' = FinalUrl(outcome)
                  /\ logger' = Append(logger, "INFO")
                  /\ clock' = clock + RetrySettle + w.took
                  /\ search' = [loads |-> search.loads + 1,
                                attempts |-> Append(search.attempts, outcome),
                                result |-> "found"]
                  /\ spc' = "fetch_data"
             ELSE /\ logger' = logger
                        \o (IF outcome = "empty_src" THEN <<"ERROR">> ELSE <<>>)
                        \o (IF Handled(Raised(outcome)) THEN <<"ERROR">> ELSE <<>>)
                  /\ clock' = IF outcome = "load_failed" THEN clock
                              ELSE clock + RetrySettle + w.took
                  /\ search' = [loads |-> search.loads + 1,
                                attempts |-> Append(search.attempts, outcome),
                                result |-> IF Handled(Raised(outcome))
                                           THEN "NoSuchElementException"
                                           ELSE Raised(outcome)]
                  /\ spc' = "search_failed"
                  /\ UNCHANGED url_crash_plane
    /\ UNCHANGED <<scrap_duration, start_time, driver, csv_file, cycle>>
    /\ UNCHANGED fetch
    /\ UNCHANGED supervisorVars

\* A handler of start_scraping that swallows the exception without a word.
ScrapingErrorSilent(entries) == entries

\* start_scraping, lines 270-271: the exception is logged.
ScrapingError(entries) == Append(entries, "ERROR")

\* start_scraping, the handler of line 270 for an exception of search_for_url.
SearchFailed ==
    /\ spc = "search_failed"
    /\ logger' = ScrapingError(logger)
    /\ spc' = "close_driver"
    /\ UNCHANGED <<scrap_duration, start_time, clock, driver, url_crash_plane,
                   csv_file, search, cycle>>
    /\ UNCHANGED fetch
    /\ UNCHANGED supervisorVars

NoFile == [exists |-> FALSE, lines |-> <<>>, closed |-> FALSE]

\* The output file opened with mode "w" and left without its header.
OpenedFileNoHeader == [exists |-> TRUE, lines |-> <<>>, closed |-> FALSE]

\* The output file after lines 188-189: opened with mode "w", so empty, and
\* the header written to it.
OpenedFile == [exists |-> TRUE, lines |-> <<HeaderLine>>, closed |-> FALSE]

\* fetch_data up to the while loop (lines 180-189): the page is loaded, the
\* output file is opened and the header written. An exception of driver.get
\* or of open is handled at line 216.
FetchOpen ==
    /\ spc = "fetch_data"
    /\ \E outcome \in {"ok", "get_failed", "open_failed"} :
          CASE outcome = "get_failed" ->
                 /\ logger' = logger \o HandleFetchFault(<<"INFO">>)
                 /\ spc' = "close_driver"
                 /\ fetch' = [log_at |-> Len(logger), fault |-> "WebDriverException",
                              rows_at |-> 0]
                 /\ UNCHANGED <<clock, csv_file>>
            [] outcome = "open_failed" ->
                 /\ logger' = logger \o HandleFetchFault(<<"INFO", "INFO">>)
                 /\ clock' = clock + PageSettle
                 /\ spc' = "close_driver"
                 /\ fetch' = [log_at |-> Len(logger), fault |-> "OSError", rows_at |-> 0]
                 /\ UNCHANGED csv_file
            [] OTHER ->
                 /\ logger' = logger \o <<"INFO", "INFO">>
                 /\ clock' = clock + PageSettle
                 /\ csv_file' = OpenedFile
                 /\ spc' = "while"
                 /\ fetch' = [NoFetch EXCEPT !.log_at = Len(logger)]
    /\ UNCHANGED <<scrap_duration, start_time, driver, url_crash_plane, search, cycle>>
    /\ UNCHANGED supervisorVars

Elapsed == clock - start_time

\* The test of the while loop (line 191); when it fails the with block closes
\* the file and line 215 is logged.
LoopCheck ==
    /\ spc = "while"
    /\ IF LoopCondition(clock, start_time, scrap_duration)
       THEN /\ spc' = "cycle"
            /\ cycle' = [cycle EXCEPT !.began = Elapsed]
            /\ UNCHANGED <<logger, csv_file>>
       ELSE /\ spc' = "close_driver"
            /\ cycle' = [cycle EXCEPT !.left_at = Elapsed]
            /\ csv_file' = [csv_file EXCEPT !.closed = TRUE]
            /\ logger' = Append(logger, "INFO")
    /\ UNCHANGED <<scrap_duration, start_time, clock, driver, url_crash_plane, search>>
    /\ UNCHANGED fetch
    /\ UNCHANGED supervisorVars

CountOf(entries, sev) == Cardinality({i \in 1..Len(entries) : entries[i] = sev})

\* One pass through the body of the while loop (lines 192-213), with the
\* handler of line 216 when an exception leaves it.
Cycle ==
    /\ spc = "cycle"
    /\ \E w \in WaitOutcomes(MarkerWait), page \in Pages, fault \in BOOLEAN :
          LET r == PollOnce(clock, w, page, fault)
          IN  /\ (~w.found \/ fault) => page = PageOf(NoElement, Bets120, Prize400, Players15)
              /\ ~w.found => ~fault
              /\ clock' = r.clock
              /\ logger' = logger \o r.entries
              /\ csv_file' = [csv_file EXCEPT !.lines = @ \o r.lines,
                                              !.closed = r.stopped]
              /\ spc' = IF r.stopped THEN "close_driver" ELSE "while"
              /\ cycle' = [n |-> cycle.n + 1, began |-> cycle.began, kind |-> r.kind,
                           page |-> IF r.kind = "extracted" THEN page ELSE <<>>,
                           data |-> r.data,
                           wrote |-> Len(r.lines), errors |-> CountOf(r.entries, "ERROR"),
                           stopped |-> r.stopped, slept |-> r.slept,
                           left_at |-> IF r.stopped THEN r.clock - start_time ELSE -1]
              /\ fetch' = IF r.stopped
                          THEN [fetch EXCEPT
                                  !.fault = CASE r.kind = "timeout" -> "TimeoutException"
                                              [] r.kind = "fault" -> "WebDriverException"
                                              [] OTHER -> "KeyError",
                                  !.rows_at = Len(csv_file.lines) + Len(r.lines)]
                          ELSE fetch
    /\ UNCHANGED <<scrap_duration, start_time, driver, url_crash_plane, search>>
    /\ UNCHANGED supervisorVars

\* start_scraping's finally: ImprovedWebScraper.close_driver.
CloseDriver ==
    /\ spc = "close_driver"
    /\ IF driver # "None"
       THEN driver' = "None" /\ logger' = logger \o <<"INFO", "INFO">>
       ELSE UNCHANGED driver /\ logger' = Append(logger, "WARNING")
    /\ spc' = "done"
    /\ UNCHANGED <<scrap_duration, start_time, clock, url_crash_plane, csv_file,
                   search, cycle>>
    /\ UNCHANGED fetch
    /\ UNCHANGED supervisorVars

ScraperEnded == spc \in {"done", "crashed", "killed"}

\* Popen.terminate() of the dashboard: the process is ended where it stands.
Kill ==
    /\ ~ScraperEnded
    /\ spc' = "killed"
    /\ UNCHANGED <<scrap_duration, start_time, clock, driver, url_crash_plane, logger,
                   csv_file, search, cycle>>
    /\ UNCHANGED fetch
    /\ UNCHANGED supervisorVars

\* The supervisor before any script run, and no scraper.
SupervisorAtRest ==
    /\ session_state = InitialSessionState
    /\ procs = [p \in Pids |-> "unborn"]
    /\ logs = [p \in Pids |-> [exists |-> FALSE, lines |-> <<>>]]
    /\ recent = None
    /\ now = 0
    /\ pc = "sidebar"
    /\ click = "none"
    /\ start_offered = FALSE
    /\ tick = NoTick
    /\ stop_obs = NoStop

\* No scraper process is followed step by step.
ScraperAtRest ==
    /\ scrap_duration = 0
    /\ start_time = 0
    /\ clock = 0
    /\ driver = "None"
    /\ url_crash_plane = <<>>
    /\ logger = <<>>
    /\ csv_file = NoFile
    /\ spc = "done"
    /\ search = NoSearch
    /\ cycle = NoCycle
    /\ fetch = NoFetch

Init ==
    /\ duration \in 0..MaxDuration
    /\ SupervisorAtRest
    /\ ScraperAtRest

\* main(SCRAP_DURATION) after ImprovedWebScraper.__init__.
InitScraper ==
    /\ scrap_duration \in 0..MaxScrapDuration
    /\ start_time \in 0..MaxStartClock
    /\ clock = start_time
    /\ driver = "None"
    /\ url_crash_plane = <<>>
    /\ logger = <<"INFO">>
    /\ csv_file = NoFile
    /\ spc = "setup_driver"
    /\ search = NoSearch
    /\ cycle = NoCycle
    /\ fetch = NoFetch
    /\ duration = 0
    /\ SupervisorAtRest

\* The lengths of log file the display is followed on: around nothing and
\* around max_lines.
LogLengths == {0, 1} \cup ((max_lines - 1)..(max_lines + MaxOlder))

\* Where the one error line of such a file stands, 0 = nowhere. The first
\* line is the info entry of ImprovedWebScraper.__init__.
ErrorPositions(n) == {0} \cup ({2, n - max_lines, n - max_lines + 1, n} \cap (2..n))

\* A log file of n lines, the error line at position e; the other lines
\* differ from their neighbours.
LongLog(n, e) ==
    [i \in 1..n |-> IF i = e THEN "ERROR"
                    ELSE CASE i % 3 = 1 -> "INFO"
                           [] i % 3 = 2 -> "WARNING"
                           [] OTHER -> "DEBUG"]

\* The dashboard after the script run in which Start was pressed at time 0
\* (no log file was there yet), and the child has since written its log.
InitLogs ==
    /\ duration \in 0..MaxDuration
    /\ session_state = [scraping_started |-> TRUE, scraping_start_time |-> 0,
                        scraping_process |-> 1, scraping_error |-> FALSE]
    /\ procs = [p \in Pids |-> IF p = 1 THEN "alive" ELSE "unborn"]
    /\ \E n \in LogLengths : \E e \in ErrorPositions(n) :
          logs = [p \in Pids |-> IF p = 1
                                 THEN [exists |-> TRUE, lines |-> LongLog(n, e)]
                                 ELSE [exists |-> FALSE, lines |-> <<>>]]
    /\ recent = 1
    /\ now = 0
    /\ pc = "sidebar"
    /\ click = "start"
    /\ start_offered = TRUE
    /\ tick = IF duration = 0
              THEN [NoTick EXCEPT !.ran = TRUE, !.fault = TRUE, !.spawned = TRUE]
              ELSE [NoTick EXCEPT !.ran = TRUE, !.time_left = duration,
                                  !.progress = <<0, duration>>, !.logs_read = TRUE,
                                  !.spawned = TRUE]
    /\ stop_obs = NoStop
    /\ ScraperAtRest

Next == DrawSidebar \/ HandleMainArea \/ Tock \/ Child

\* The dashboard and the exit of its children, the log files left as they are.
NextLogs == DrawSidebar \/ HandleMainArea \/ Tock \/ (\E p \in Pids : ChildExit(p))

ScraperStep ==
    \/ SetupDriver
    \/ BeginScraping
    \/ SearchFirst
    \/ SearchRetry
    \/ SearchFailed
    \/ FetchOpen
    \/ LoopCheck
    \/ Cycle
    \/ CloseDriver

NextScraper == ScraperStep \/ Kill

vars == <<supervisorVars, scraperVars>>

Spec == Init /\ [][Next]_vars

SpecScraper == InitScraper /\ [][NextScraper]_vars

SpecLogs == InitLogs /\ [][NextLogs]_vars

\* The scraper is a running process: it takes its next step.
FairSpecScraper == SpecScraper /\ WF_vars(NextScraper)

Tracked == session_state.scraping_process

\* The tracked child process is not alive.
ChildDown == ~Alive(procs, Tracked)

\* A script run has just finished (the dashboard waits for the next event).
TickDone == pc = "sidebar"

(***************************************************************************)
(* C1. On a refresh tick processed while scraping is running, if the most  *)
(* recently modified log file holds an error line, then when the tick      *)
(* finishes the tracked child is not alive and the supervisor is in the    *)
(* error state, whatever the elapsed time. Stated for the ticks that run   *)
(* to their end (no exception).                                            *)
(***************************************************************************)
C1_ErrorTickEndsInError ==
    (TickDone /\ tick.ran /\ ~tick.fault /\ tick.log_error)
        => /\ ChildDown
           /\ session_state.scraping_error
           /\ ~session_state.scraping_started

(***************************************************************************)
(* C2. Once the supervisor is in the error state, every later step that is *)
(* not a press of Stop leaves scraping_error true and spawns no child, and *)
(* every later script run without Stop ends with the Start button not      *)
(* drawn; a script run with Stop pressed ends with the Start button drawn. *)
(***************************************************************************)
C2_ErrorStateSticky ==
    [][/\ (session_state.scraping_error /\ (pc = "sidebar" => click' # "stop"))
            => /\ session_state'.scraping_error
               /\ procs' = procs
               /\ (pc = "main" /\ pc' = "sidebar" => ~start_offered')
       /\ (pc = "main" /\ pc' = "sidebar" /\ click = "stop") => start_offered'
      ]_vars

\* A manual refresh processed in the error state: Start is not offered.
C2_Witness ==
    /\ TickDone
    /\ session_state.scraping_error
    /\ click = "refresh"
    /\ ~tick.ran
    /\ ~start_offered

(***************************************************************************)
(* C3. When _stop_scraping returns from a press of Stop, in whatever mode  *)
(* it was pressed, the tracked child is not alive, scraping_started and    *)
(* scraping_error are false, and terminate was sent exactly when the child *)
(* was still alive.                                                        *)
(***************************************************************************)
C3_StopAlwaysResets ==
    (pc = "main" /\ click = "stop")
        => /\ ChildDown
           /\ ~session_state.scraping_started
           /\ ~session_state.scraping_error
           /\ stop_obs.from \in {"idle", "running", "error"}
           /\ stop_obs.terminated <=> stop_obs.was_alive

\* Stop pressed while running with the child alive: it was terminated.
C3_Witness ==
    /\ pc = "main"
    /\ click = "stop"
    /\ stop_obs.from = "running"
    /\ stop_obs.was_alive
    /\ procs[Tracked] = "exited"

(***************************************************************************)
(* C4. A refresh tick processed while running with elapsed >= duration and *)
(* no error line in the log ends with the child not alive, scraping_started*)
(* false and scraping_error false.                                         *)
(***************************************************************************)
C4_DurationTickCompletes ==
    (TickDone /\ tick.ran /\ tick.elapsed >= duration /\ ~tick.log_error)
        => /\ ChildDown
           /\ ~session_state.scraping_started
           /\ ~session_state.scraping_error

\* The same for a positive duration, where the tick reaches line 97.
C4_PositiveDuration ==
    duration > 0 => C4_DurationTickCompletes

(***************************************************************************)
(* C5. The polling loop always terminates: no polling cycle begins once    *)
(* the time elapsed since start_time has reached the duration, the loop is *)
(* left less than one polling cycle (marker wait plus skip sleep) after    *)
(* the duration whatever the cycles find, and the running scraper is       *)
(* eventually out of the loop for good.                                    *)
(***************************************************************************)
InLoop == spc \in {"while", "cycle"}

OneCycle == MarkerWait + SkipSleep

C5_Bound ==
    /\ spc = "cycle" => Elapsed < Tenths(scrap_duration)
    /\ cycle.n > 0 => cycle.began < Tenths(scrap_duration)
    /\ (InLoop /\ cycle.n > 0) => Elapsed < Tenths(scrap_duration) + OneCycle
    /\ (cycle.n > 0 /\ cycle.left_at # -1)
          => cycle.left_at < Tenths(scrap_duration) + OneCycle

NotExposing == {"timeout", "absent", "empty_src"}

NeverExposed ==
    /\ search.attempts # <<>>
    /\ \A i \in 1..Len(search.attempts) : search.attempts[i] \in NotExposing

\* C6: two loads at most, and exactly two ending in NoSuchElementException when
\* no load exposes the iframe.
C6_TwoLoadsThenNotFound ==
    /\ search.loads <= 2
    /\ Len(search.attempts) = 2 => search.result # "pending"
    /\ (NeverExposed /\ search.result # "pending")
          => /\ search.loads = 2
             /\ Len(search.attempts) = 2
             /\ search.result = "NoSuchElementException"

\* An empty src on the first load and a timeout on the retry.
C6_Witness ==
    /\ search.attempts = <<"empty_src", "timeout">>
    /\ search.result = "NoSuchElementException"
    /\ spc = "search_failed"

(***************************************************************************)
(* C7. A polling cycle in which one of the four selectors finds no element *)
(* takes the loop from RUNNING to STOPPED: the loop is left on that cycle. *)
(***************************************************************************)
SomeAbsent(page) == \E k \in Keys : ~page[k].present

\* C7: a cycle with an absent element leaves the loop.
C7_AbsentElementStops ==
    (cycle.kind = "extracted" /\ SomeAbsent(cycle.page)) => cycle.stopped

(***************************************************************************)
(* C8. A polling cycle whose extraction is empty or partial is silently    *)
(* skipped: no row is written, no error entry is logged, and the loop goes *)
(* on.                                                                     *)
(***************************************************************************)
C8_PartialSilentlySkipped ==
    (cycle.kind = "extracted" /\ DOMAIN cycle.data # Keys)
        => /\ cycle.wrote = 0
           /\ cycle.errors = 0
           /\ ~cycle.stopped

(***************************************************************************)
(* C9. A polling cycle where Value X is extracted as the empty string or   *)
(* is not extracted appends no row, lets no exception leave the loop, and  *)
(* the loop stays RUNNING: it sleeps and comes back to its test.           *)
(***************************************************************************)
XMissingOrEmpty(data) == "Value X" \notin DOMAIN data \/ data["Value X"] = <<>>

\* C9: a cycle with Value X missing or empty writes nothing and the loop goes on.
C9_EmptyMultiplierSkips ==
    (cycle.kind = "extracted" /\ XMissingOrEmpty(cycle.data))
        => /\ cycle.wrote = 0
           /\ cycle.errors = 0
           /\ ~cycle.stopped
           /\ cycle.slept = SkipSleep

\* A blank multiplier was skipped and the next cycle has begun.
C9_Witness ==
    /\ spc = "cycle"
    /\ cycle.kind = "extracted"
    /\ cycle.page["Value X"] = Element(<<" ">>)
    /\ cycle.data["Value X"] = <<>>
    /\ Len(csv_file.lines) = 1

(***************************************************************************)
(* C10. For every sample with the four fields extracted and a non-empty    *)
(* multiplier, exactly one row is appended: timestamp, multiplier, bets,   *)
(* prize, players in that order, the bets, prize and players being the     *)
(* extracted texts unchanged. As claimed, the multiplier is the extracted  *)
(* text with only its trailing unit character removed; as amended, it is   *)
(* the extracted text with every character x removed.                      *)
(***************************************************************************)
Digits == {"0", "1", "2", "3", "4", "5", "6", "7", "8", "9"}

TrailingUnitRemoved(t) ==
    IF t # <<>> /\ t[Len(t)] \notin Digits THEN SubSeq(t, 1, Len(t) - 1) ELSE t

NotX(c) == c # "x"

EveryXRemoved(t) == SelectSeq(t, NotX)

FullSample == cycle.kind = "extracted" /\ DOMAIN cycle.data = Keys
                 /\ cycle.data["Value X"] # <<>>

LastLine == csv_file.lines[Len(csv_file.lines)]

RowOf(multiplier) ==
    <<",">> \o multiplier \o <<",">> \o cycle.data["Value Bets"]
        \o <<",">> \o cycle.data["Value Prize"]
        \o <<",">> \o cycle.data["Value Players"] \o <<"LF">>

\* C10 as claimed: the multiplier written is the text less its trailing unit
\* character.
C10_RowTrailingUnitRemoved ==
    FullSample
        => /\ cycle.wrote = 1
           /\ LastLine.timestamp >= 0
           /\ LastLine.rest = RowOf(TrailingUnitRemoved(cycle.data["Value X"]))

\* C10 as amended: the multiplier written is the text less every x.
C10_RowEveryXRemoved ==
    FullSample
        => /\ cycle.wrote = 1
           /\ Len(csv_file.lines) >= 2
           /\ LastLine.timestamp >= 0
           /\ LastLine.rest = RowOf(EveryXRemoved(cycle.data["Value X"]))

\* The sample "x2.5", 120, 400, 15 was written as the row 2.5,120,400,15.
C10_Witness ==
    /\ FullSample
    /\ cycle.data["Value X"] = <<"x", "2", ".", "5">>
    /\ LastLine.rest = <<",", "2", ".", "5", ",", "1", "2", "0", ",", "4", "0", "0",
                         ",", "1", "5", "LF">>

(***************************************************************************)
(* C11: in every output file the header line is the first line, it is      *)
(* there from the moment the file exists, and no later line is a header,   *)
(* whatever number of polling cycles has run.                              *)
(***************************************************************************)
C11_HeaderOnceAndFirst ==
    csv_file.exists =>
        /\ Len(csv_file.lines) >= 1
        /\ csv_file.lines[1] = HeaderLine
        /\ \A i \in 2..Len(csv_file.lines) :
              /\ csv_file.lines[i] # HeaderLine
              /\ csv_file.lines[i].timestamp >= 0

\* Two cycles have each written a row under the header, and the file is closed.
C11_Witness ==
    /\ csv_file.closed
    /\ Len(csv_file.lines) = 3
    /\ cycle.n >= 2
    /\ spc = "done"

\* The loop was left before any cycle ran: the file holds the header alone.
C11_WitnessNoCycle ==
    /\ csv_file.closed
    /\ csv_file.lines = <<HeaderLine>>
    /\ cycle.n = 0
    /\ spc = "done"

(***************************************************************************)
(* C12: whenever the scraper process has ended, by whichever path          *)
(* (duration exhausted, loop stopped, discovery failure, fault during      *)
(* fetch, termination by the dashboard), the browser session it had opened *)
(* has been released: the driver is None.                                  *)
(***************************************************************************)
C12_DriverReleasedAtExit == ScraperEnded => driver = "None"

\* The same on the paths that end by main returning.
C12_ReleasedWhenMainReturns == spc = "done" => driver = "None"

\* The log entries emitted since fetch_data was called.
SinceFetch == SubSeq(logger, fetch.log_at + 1, Len(logger))

(***************************************************************************)
(* C13: once a fault (page load failure, marker-wait timeout, file error,  *)
(* missing key) has reached the handler of fetch_data, exactly one error   *)
(* entry has been logged since fetch_data was called, the loop is over and *)
(* the output file has the lines it had at the fault, and the exception    *)
(* has not left fetch_data: start_scraping logs no error of its own and    *)
(* goes on to close_driver, the process does not crash.                    *)
(***************************************************************************)
C13_FetchFaultCaughtOnce ==
    fetch.fault # "none" =>
        /\ CountOf(SinceFetch, "ERROR") = 1
        /\ Len(csv_file.lines) = fetch.rows_at
        /\ spc \in {"close_driver", "done", "killed"}
        /\ spc = "done" =>
              /\ driver = "None"
              /\ SubSeq(logger, Len(logger) - 2, Len(logger)) = <<"ERROR", "INFO", "INFO">>

\* A row was written, a later cycle met a fault, and the process has ended
\* by itself.
C13_Witness ==
    /\ fetch.fault \in {"TimeoutException", "KeyError", "WebDriverException"}
    /\ fetch.rows_at = 2
    /\ cycle.n >= 2
    /\ spc = "done"

\* The fault was met before the loop: the page load or the open failed.
C13_WitnessBeforeLoop ==
    /\ fetch.fault = "OSError"
    /\ ~csv_file.exists
    /\ spc = "done"

\* Discovery has failed on its second attempt.
FailedOnRetry == Len(search.attempts) = 2 /\ search.result \notin {"pending", "found"}

\* The error entries search_for_url writes by itself: one per iframe found
\* with an empty src (lines 111 and 136), one by the handler of the retry
\* (line 139).
SearchOwnErrors ==
    Cardinality({i \in 1..Len(search.attempts) : search.attempts[i] = "empty_src"})
    + (IF search.attempts[2] \in {"timeout", "absent", "empty_src"} THEN 1 ELSE 0)

(***************************************************************************)
(* C14: when URL discovery has failed on its second attempt, fetch_data is *)
(* never called: no output file exists, no row is written, no polling      *)
(* cycle runs; start_scraping logs one error entry, and when the session   *)
(* has ended by itself the driver is closed.                               *)
(***************************************************************************)
C14_FailedDiscoveryNeverPolls ==
    FailedOnRetry =>
        /\ csv_file = NoFile
        /\ cycle = NoCycle
        /\ fetch = NoFetch
        /\ url_crash_plane = <<>>
        /\ spc \in {"search_failed", "close_driver", "done", "killed"}
        /\ spc = "search_failed" => CountOf(logger, "ERROR") = SearchOwnErrors
        /\ spc \in {"close_driver", "done"} =>
              CountOf(logger, "ERROR") = SearchOwnErrors + 1
        /\ spc = "done" =>
              /\ driver = "None"
              /\ SubSeq(logger, Len(logger) - 2, Len(logger)) = <<"ERROR", "INFO", "INFO">>

\* Both attempts found no usable iframe and the session has ended by itself.
C14_Witness ==
    /\ FailedOnRetry
    /\ search.result = "NoSuchElementException"
    /\ search.loads = 2
    /\ spc = "done"

\* The log file _display_logs reads, under SpecLogs.
LogRead == logs[recent].lines

\* The last script run called _display_logs and it found a log file.
LogsDisplayed == TickDone /\ tick.logs_read /\ tick.log_pid # None

\* The error line stands before the last max_lines lines, and nowhere else.
ErrorOlderOnly ==
    /\ Len(LogRead) > max_lines
    /\ \E i \in 1..(Len(LogRead) - max_lines) : LogRead[i] = "ERROR"
    /\ ~ErrorFound(LastLines(LogRead, max_lines))

(***************************************************************************)
(* C15: when _display_logs has run on a log file, an error line anywhere   *)
(* in the file, also before its last 500 lines, has the tracked child      *)
(* terminated; with no error line, min(n, 500) lines are displayed and     *)
(* they are the last lines of the file, in their order.                    *)
(***************************************************************************)
C15_ErrorSearchedBeforeTruncation ==
    LogsDisplayed =>
        LET n == Len(LogRead)
            k == Len(tick.displayed)
        IN  /\ ErrorFound(LogRead) => (tick.error_found /\ ChildDown /\ k = 0)
            /\ ~ErrorFound(LogRead) =>
                  /\ ~tick.error_found
                  /\ k = Min(n, 500)
                  /\ \A i \in 1..k : tick.displayed[i].text = LogRead[n - k + i]

\* The only error line is older than the last 500 lines, and the child that
\* was running has been terminated.
C15_Witness ==
    /\ LogsDisplayed
    /\ ErrorOlderOnly
    /\ tick.error_found
    /\ procs[1] = "exited"

\* A file of more than 500 lines without an error line has been displayed.
C15_WitnessTruncated ==
    /\ LogsDisplayed
    /\ Len(LogRead) > max_lines
    /\ Len(tick.displayed) = 500
    /\ procs[1] = "alive"

(***************************************************************************)
(* C16: whenever scraping_started is true, the session state holds a start *)
(* time and a child-process handle that are not None, also when spawning   *)
(* the child failed.                                                       *)
(***************************************************************************)
C16_StartedHasTimeAndHandle ==
    session_state.scraping_started =>
        /\ session_state.scraping_start_time # None
        /\ session_state.scraping_process # None

\* The part of it that holds: the start time is set with the flag.
C16_StartedHasTime ==
    session_state.scraping_started => session_state.scraping_start_time # None

\* What a tick that entered lines 84-99 computed is what C17 says: no fault,
\* the ratio min(elapsed / duration, 1) within [0, 1], the remaining time
\* max(0, duration - elapsed).
ProgressAsClaimed ==
    /\ ~tick.fault
    /\ tick.progress[2] > 0
    /\ 0 <= tick.progress[1] /\ tick.progress[1] <= tick.progress[2]
    /\ IF tick.elapsed >= duration
       THEN tick.progress[1] = tick.progress[2]
       ELSE tick.progress[1] * duration = tick.elapsed * tick.progress[2]
    /\ tick.time_left = Max(0, duration - tick.elapsed)
    /\ tick.time_left >= 0

(***************************************************************************)
(* C17: on every refresh tick while running, for every configured duration *)
(* from 0 upwards and every elapsed time, the progress ratio is            *)
(* min(elapsed / duration, 1) and lies in [0, 1], the remaining time is    *)
(* max(0, duration - elapsed), and no fault is raised.                     *)
(***************************************************************************)
C17_ProgressWellDefined == (TickDone /\ tick.ran) => ProgressAsClaimed

\* The same for the durations above 0.
C17_PositiveDuration == (TickDone /\ tick.ran /\ duration > 0) => ProgressAsClaimed

(***************************************************************************)
(* C18: when a tick has stopped the scraping for an error line, the log    *)
(* file it read is the tracked child's own: an error line left in the most *)
(* recent log file by an earlier session stops no freshly started child.   *)
(***************************************************************************)
C18_ErrorStopOnlyForOwnLog ==
    (TickDone /\ tick.error_found) => tick.log_pid = Tracked

\* The positions of the process at which nothing more is searched or
\* extracted.
Terminal == spc \in {"search_failed", "close_driver", "done", "crashed", "killed"}

(***************************************************************************)
(* C19: the scraper logs an error entry only on a terminal condition: once *)
(* its log holds an error entry, no further discovery attempt and no       *)
(* further extraction follow. A first discovery attempt that is about to   *)
(* be retried has logged no error.                                         *)
(***************************************************************************)
C19_ErrorOnlyWhenTerminal == CountOf(logger, "ERROR") > 0 => Terminal

\* The children that are alive.
AliveChildren == {p \in Pids : procs[p] = "alive"}

\* At most one child is alive, it is the tracked one, and none is alive
\* while scraping_started is false.
OneChildAtMost ==
    /\ Cardinality(AliveChildren) <= 1
    /\ \A p \in AliveChildren : p = Tracked
    /\ ~session_state.scraping_started => ChildDown

\* A step that spawns a child starts from scraping_started and
\* scraping_error both false.
SpawnOnlyWhenIdle ==
    Spawned' > Spawned =>
        /\ ~session_state.scraping_started
        /\ ~session_state.scraping_error
        /\ AliveChildren = {}

(***************************************************************************)
(* C20: at most one child of the dashboard session is alive at any time:   *)
(* while scraping_started is false the tracked child is absent or has      *)
(* exited, and a child is spawned only from a state where scraping_started *)
(* and scraping_error are both false, under every interleaving of Start,   *)
(* Stop, refresh ticks and children exiting.                               *)
(***************************************************************************)
C20_AtMostOneChildAlive == []OneChildAtMost /\ [][SpawnOnlyWhenIdle]_vars

\* A second child is running after the first one has ended.
C20_Witness ==
    /\ procs[1] = "exited"
    /\ procs[2] = "alive"
    /\ Tracked = 2
    /\ session_state.scraping_started
    /\ ~session_state.scraping_error

\* The three supervisor states as the two flags spell them.
IsIdle == ~session_state.scraping_started /\ ~session_state.scraping_error
IsRunning == session_state.scraping_started /\ ~session_state.scraping_error
IsError == ~session_state.scraping_started /\ session_state.scraping_error

(***************************************************************************)
(* C21: in every reachable supervisor state scraping_started and           *)
(* scraping_error are not both true: the supervisor is in exactly one of   *)
(* idle (both false), running (started only) and error (error only).       *)
(***************************************************************************)
C21_FlagsExclusive ==
    /\ ~(session_state.scraping_started /\ session_state.scraping_error)
    /\ IsIdle \/ IsRunning \/ IsError
    /\ ~(IsIdle /\ IsRunning) /\ ~(IsIdle /\ IsError) /\ ~(IsRunning /\ IsError)

\* A running session has just been stopped for an error line in the logs:
\* the error flag is set and the started flag is down.
C21_Witness ==
    /\ TickDone
    /\ tick.ran
    /\ tick.error_found
    /\ IsError
    /\ Tracked # None

TypeOK ==
    /\ duration \in 0..MaxDuration
    /\ session_state.scraping_started \in BOOLEAN
    /\ session_state.scraping_error \in BOOLEAN
    /\ session_state.scraping_process \in {None} \cup Pids
    /\ now \in 0..MaxTime
    /\ pc \in {"sidebar", "main"}
    /\ fetch.fault \in {"none", "WebDriverException", "OSError", "TimeoutException",
                        "KeyError"}
====
